---------------------------- MODULE Spec2Model ----------------------------
(***************************************************************************)
(* A model of src/src/main.rs: a Bevy (0.15) flappy-bird game.             *)
(*                                                                         *)
(* Units.  The program computes in f32; the model computes in exact       *)
(* fixed point.  Time is counted in twentieths of a second (Secs), a      *)
(* velocity in half pixels per second (PxPerSec) and a length in          *)
(* fortieths of a pixel (Px), so that  length = velocity * time  and      *)
(* velocity = acceleration * time  are exact for every delta the model    *)
(* draws: Px(1) = PxPerSec(1) * Secs(1) / 1.                               *)
(*                                                                         *)
(* Frames.  Bevy's Main schedule runs StateTransition before Update.  A   *)
(* frame of the model is the action Transition, when a NextState is       *)
(* pending, followed by the Update action of the current AppState.        *)
(* Commands are deferred: the systems of Update carry no ordering         *)
(* constraint (main.rs:646-662 has no .chain()), so no sync point lies    *)
(* between them and every command is applied when the schedule ends.      *)
(* For the same reason the order in which the Playing systems run is not  *)
(* fixed by the program: the model draws it anew in every frame.          *)
(*                                                                         *)
(* Two specifications.  Spec is the program: Startup has run and frames   *)
(* follow one another.  SystemSpec runs the systems of the Playing set    *)
(* one at a time on worlds drawn from TestWorlds, the way a unit test     *)
(* builds a World and runs a system on it; it reaches the deltas and the *)
(* placements that Spec, which steps in whole seconds, does not.          *)
(***************************************************************************)
EXTENDS Integers, Sequences, FiniteSets, TLC

VARIABLES
    state,            \* State<AppState>
    next_state,       \* NextState<AppState>: "Unchanged" or the pending state
    entities,         \* the entities carrying Player or Pipe, with their components
    score,            \* Score.0
    timer,            \* the Local<Timer> of pipe_spawn_system
    menu,             \* number of entities carrying Menu (with their buttons)
    game_over_ui,     \* number of entities carrying GameOverUI (with their buttons)
    pressed,          \* the button the pointer presses in the current frame
    space,            \* ButtonInput<KeyCode>: Space is held down
    space_just_pressed, \* ButtonInput<KeyCode>: Space went down in the current frame
    exit,             \* an AppExit::Success event has been sent
    delta,            \* Time::delta of the current frame
    spawned,          \* pipe pairs spawned in the current run (allocates entity ids)
    passed_despawned, \* history: Scoreable pipes of this run despawned with passed = true
    ran,              \* history: the schedule (Spec) or system (SystemSpec) that ran last
    steps,            \* history: systems run so far (SystemSpec)
    falling           \* history: Playing frames with delta > 0 since Playing was entered
                      \*          or Space last went down

vars == <<state, next_state, entities, score, timer, menu, game_over_ui,
          pressed, space, space_just_pressed, exit, delta, spawned, passed_despawned, ran, steps,
          falling>>

----------------------------------------------------------------------------
(* Units *)

Secs(s) == s * 20
Twentieths(n) == n
Px(p) == p * 40
PxPerSec(v) == v * 2

(* velocity * time, as a length *)
Travel(v, dt) == v * dt

(* acceleration (px/s^2) * time, as a velocity *)
Accelerate(a, dt) == (PxPerSec(a) * dt) \div 20

----------------------------------------------------------------------------
(* Bounds and input sets *)

\* Spec follows a run until it has spawned this many pipe pairs.
MaxPairs == 7

\* SystemSpec runs this many systems on a world.
MaxSteps == 3

\* time.delta() of a frame of Spec: 0 s (the first frame of an App) and 1 s
Deltas == {Secs(0), Secs(1)}

\* rng.gen_range(-130.0..=130.0) in Spec: the middle of the range
GapCentres == {Px(0)}

\* time.delta() in SystemSpec: 0 s, 0.05 s, 1 s, 4 s (two spawn periods)
TestDeltas == {Secs(0), Twentieths(1), Secs(1), Secs(4)}

\* rng.gen_range(-130.0..=130.0) in SystemSpec: the ends and the middle
TestGapCentres == {Px(-130), Px(0), Px(130)}

----------------------------------------------------------------------------
(* Program constants *)

GRAVITY == -350
FLAP_SPEED == 150
PLAYER_HALF == 16
TOP_BOUNDARY == 300
BOTTOM_BOUNDARY == -300
PIPE_GAP == 100
PIPE_SPEED == -100
PIPE_WIDTH == 50
PIPE_HEIGHT == 600
PIPE_INSET == 5
PIPE_SPAWN_X == 500
PIPE_LIFETIME == 10
SPAWN_PERIOD == 2

----------------------------------------------------------------------------
(* Entities *)

Buttons == {"StartButton", "ExitButton", "RestartButton"}

PlayerId == 0

\* The bundle spawned by setup and by restart_game.
PlayerBundle ==
    [id |-> PlayerId, player |-> TRUE, pipe |-> FALSE,
     x |-> Px(0), y |-> Px(0), dx |-> PxPerSec(0), dy |-> PxPerSec(0),
     hw |-> Px(PLAYER_HALF), hh |-> Px(PLAYER_HALF),
     has_lifetime |-> FALSE, lifetime |-> 0,
     has_scoreable |-> FALSE, passed |-> FALSE]

\* One pipe of a pair, as spawn_pipes spawns it.
PipeBundle(i, py, scoreable) ==
    [id |-> i, player |-> FALSE, pipe |-> TRUE,
     x |-> Px(PIPE_SPAWN_X), y |-> py, dx |-> PxPerSec(PIPE_SPEED), dy |-> PxPerSec(0),
     hw |-> Px(PIPE_WIDTH) \div 2 - Px(PIPE_INSET),
     hh |-> Px(PIPE_HEIGHT) \div 2 - Px(PIPE_INSET),
     has_lifetime |-> TRUE, lifetime |-> Secs(PIPE_LIFETIME),
     has_scoreable |-> scoreable, passed |-> FALSE]

Players(es) == {e \in es : e.player}
Pipes(es) == {e \in es : e.pipe}
Ids(es) == {e.id : e \in es}

\* Timer::default(): duration zero, nothing elapsed
DefaultTimer == [duration |-> 0, elapsed |-> 0, times_finished_this_tick |-> 0]

----------------------------------------------------------------------------
(* The world a system runs on.  despawn and spawn are the Commands queued *)
(* during the schedule; ApplyCommands applies them when it ends.          *)

World ==
    [entities |-> entities, score |-> score, next_state |-> next_state,
     timer |-> timer, exit |-> exit, spawned |-> spawned,
     menu |-> menu, game_over_ui |-> game_over_ui,
     despawn |-> {}, spawn |-> {}, despawn_menu |-> FALSE, despawn_ui |-> FALSE]

\* fn move_system: every entity with Transform and Velocity
move_system(w, dt) ==
    [w EXCEPT !.entities =
        {[e EXCEPT !.x = e.x + Travel(e.dx, dt), !.y = e.y + Travel(e.dy, dt)] :
             e \in w.entities}]

\* Mutant: the flap adds to the velocity.
player_input_system_adds(w, just_pressed) ==
    IF just_pressed
    THEN [w EXCEPT !.entities =
            {IF e.player THEN [e EXCEPT !.dy = e.dy + PxPerSec(FLAP_SPEED)] ELSE e :
                 e \in w.entities}]
    ELSE w

\* fn player_input_system: keyboard_input.just_pressed(KeyCode::Space)
player_input_system(w, just_pressed) ==
    IF just_pressed
    THEN [w EXCEPT !.entities =
            {IF e.player THEN [e EXCEPT !.dy = PxPerSec(FLAP_SPEED)] ELSE e :
                 e \in w.entities}]
    ELSE w

\* Mutant: the query matches no entity (With<Pipe> for With<Player>), so
\* no velocity is changed.
gravity_system_off(w, dt) == w

\* Mutant: gravity is subtracted.
gravity_system_upwards(w, dt) ==
    [w EXCEPT !.entities =
        {IF e.player THEN [e EXCEPT !.dy = e.dy - Accelerate(GRAVITY, dt)] ELSE e :
             e \in w.entities}]

\* fn gravity_system
gravity_system(w, dt) ==
    [w EXCEPT !.entities =
        {IF e.player THEN [e EXCEPT !.dy = e.dy + Accelerate(GRAVITY, dt)] ELSE e :
             e \in w.entities}]

\* Mutant: an entity whose lifetime is exactly 0 is kept for one more frame.
lifetime_system_late(w, dt) ==
    LET aged == {IF e.has_lifetime THEN [e EXCEPT !.lifetime = e.lifetime - dt] ELSE e :
                     e \in w.entities}
    IN  [w EXCEPT !.entities = aged,
                  !.despawn = w.despawn \cup
                      {e.id : e \in {a \in aged : a.has_lifetime /\ a.lifetime < 0}}]

\* fn lifetime_system: the despawn is a command
lifetime_system(w, dt) ==
    LET aged == {IF e.has_lifetime THEN [e EXCEPT !.lifetime = e.lifetime - dt] ELSE e :
                     e \in w.entities}
    IN  [w EXCEPT !.entities = aged,
                  !.despawn = w.despawn \cup
                      {e.id : e \in {a \in aged : a.has_lifetime /\ a.lifetime <= 0}}]

\* Mutant: the bottom pipe carries a Scoreable too.
spawn_pipes_both_scoreable(w, center_y) ==
    LET top_pipe_y == center_y + Px(PIPE_GAP) \div 2 + Px(PIPE_HEIGHT) \div 2
        bottom_pipe_y == center_y - Px(PIPE_GAP) \div 2 - Px(PIPE_HEIGHT) \div 2
    IN  [w EXCEPT !.spawn = w.spawn \cup
                      {PipeBundle(2 * w.spawned + 1, top_pipe_y, TRUE),
                       PipeBundle(2 * w.spawned + 2, bottom_pipe_y, TRUE)},
                  !.spawned = w.spawned + 1]

\* fn spawn_pipes: two commands.spawn
spawn_pipes(w, center_y) ==
    LET top_pipe_y == center_y + Px(PIPE_GAP) \div 2 + Px(PIPE_HEIGHT) \div 2
        bottom_pipe_y == center_y - Px(PIPE_GAP) \div 2 - Px(PIPE_HEIGHT) \div 2
    IN  [w EXCEPT !.spawn = w.spawn \cup
                      {PipeBundle(2 * w.spawned + 1, top_pipe_y, TRUE),
                       PipeBundle(2 * w.spawned + 2, bottom_pipe_y, FALSE)},
                  !.spawned = w.spawned + 1]

\* Timer::tick of a TimerMode::Repeating timer (bevy_time)
TimerTick(t, dt) ==
    LET elapsed == t.elapsed + dt
    IN  IF elapsed >= t.duration
        THEN [t EXCEPT !.times_finished_this_tick = elapsed \div t.duration,
                       !.elapsed = elapsed % t.duration]
        ELSE [t EXCEPT !.times_finished_this_tick = 0, !.elapsed = elapsed]

\* Timer::just_finished
just_finished(t) == t.times_finished_this_tick > 0

\* Mutant: one pair for every period the tick has completed.
pipe_spawn_system_catch_up(w, dt, center_y) ==
    LET started == IF w.timer.duration = 0
                   THEN [DefaultTimer EXCEPT !.duration = Secs(SPAWN_PERIOD)]
                   ELSE w.timer
        ticked == TimerTick(started, dt)
        w1 == [w EXCEPT !.timer = ticked]
    IN  IF ticked.times_finished_this_tick >= 2
        THEN spawn_pipes(spawn_pipes(w1, center_y), center_y)
        ELSE IF just_finished(ticked) THEN spawn_pipes(w1, center_y) ELSE w1

\* fn pipe_spawn_system
pipe_spawn_system(w, dt, center_y) ==
    LET started == IF w.timer.duration = 0
                   THEN [DefaultTimer EXCEPT !.duration = Secs(SPAWN_PERIOD)]
                   ELSE w.timer
        ticked == TimerTick(started, dt)
        w1 == [w EXCEPT !.timer = ticked]
    IN  IF just_finished(ticked) THEN spawn_pipes(w1, center_y) ELSE w1

\* Mutant: scoreable.passed is never set.
score_system_unflagged(w) ==
    IF Cardinality(Players(w.entities)) # 1
    THEN w
    ELSE LET player == CHOOSE p \in Players(w.entities) : TRUE
             scored == {e \in Pipes(w.entities) :
                           e.has_scoreable /\ ~e.passed /\ player.x > e.x}
         IN  [w EXCEPT !.score = w.score + Cardinality(scored)]

\* fn score_system
score_system(w) ==
    IF Cardinality(Players(w.entities)) # 1
    THEN w
    ELSE LET player == CHOOSE p \in Players(w.entities) : TRUE
             scored == {e \in Pipes(w.entities) :
                           e.has_scoreable /\ ~e.passed /\ player.x > e.x}
         IN  [w EXCEPT !.score = w.score + Cardinality(scored),
                       !.entities = {IF e \in scored THEN [e EXCEPT !.passed = TRUE] ELSE e :
                                         e \in w.entities}]

\* Aabb2d::new(center, half_size)
Aabb2d(e) ==
    [min |-> [x |-> e.x - e.hw, y |-> e.y - e.hh],
     max |-> [x |-> e.x + e.hw, y |-> e.y + e.hh]]

\* Mutant: open boxes, touching edges do not intersect.
intersects_strictly(a, b) ==
    /\ a.min.x < b.max.x /\ a.max.x > b.min.x
    /\ a.min.y < b.max.y /\ a.max.y > b.min.y

\* Aabb2d::intersects (bevy_math, IntersectsVolume): closed boxes
intersects(a, b) ==
    /\ a.min.x <= b.max.x /\ a.max.x >= b.min.x
    /\ a.min.y <= b.max.y /\ a.max.y >= b.min.y

\* fn collision_system
collision_system(w) ==
    LET players == {e \in w.entities : e.player /\ ~e.pipe}
    IN  IF Cardinality(players) # 1
        THEN w
        ELSE LET player == CHOOSE p \in players : TRUE
             IN  IF \E p \in Pipes(w.entities) : intersects(Aabb2d(player), Aabb2d(p))
                 THEN [w EXCEPT !.next_state = "GameOver"]
                 ELSE w

\* Mutant: an edge exactly on a boundary is already out of bounds.
boundary_collision_system_inclusive(w) ==
    IF Cardinality(Players(w.entities)) # 1
    THEN w
    ELSE LET player == CHOOSE p \in Players(w.entities) : TRUE
             player_top == player.y + player.hh
             player_bottom == player.y - player.hh
         IN  IF player_top >= Px(TOP_BOUNDARY) \/ player_bottom <= Px(BOTTOM_BOUNDARY)
             THEN [w EXCEPT !.next_state = "GameOver"]
             ELSE w

\* Mutant: only the top boundary is tested.
boundary_collision_system_top_only(w) ==
    IF Cardinality(Players(w.entities)) # 1
    THEN w
    ELSE LET player == CHOOSE p \in Players(w.entities) : TRUE
             player_top == player.y + player.hh
         IN  IF player_top > Px(TOP_BOUNDARY)
             THEN [w EXCEPT !.next_state = "GameOver"]
             ELSE w

\* fn boundary_collision_system
boundary_collision_system(w) ==
    IF Cardinality(Players(w.entities)) # 1
    THEN w
    ELSE LET player == CHOOSE p \in Players(w.entities) : TRUE
             player_top == player.y + player.hh
             player_bottom == player.y - player.hh
         IN  IF player_top > Px(TOP_BOUNDARY) \/ player_bottom < Px(BOTTOM_BOUNDARY)
             THEN [w EXCEPT !.next_state = "GameOver"]
             ELSE w

\* fn despawn_menu (it runs in Playing, so its state check passes)
despawn_menu(w) == [w EXCEPT !.despawn_menu = TRUE]

\* Mutant: the game-over screen is never removed.
despawn_game_over_ui_idle(w) == w

\* fn despawn_game_over_ui
despawn_game_over_ui(w) == [w EXCEPT !.despawn_ui = TRUE]

\* fn button_system: runs on the buttons whose Interaction changed
button_system(w, interaction, previous) ==
    IF interaction = previous
    THEN w
    ELSE IF interaction = "StartButton" THEN [w EXCEPT !.next_state = "Playing"]
    ELSE IF interaction = "ExitButton" THEN [w EXCEPT !.exit = TRUE]
    ELSE w

\* Mutant: the restart button leads back to the menu.
game_over_button_system_to_menu(w, interaction) ==
    IF interaction = "RestartButton" THEN [w EXCEPT !.next_state = "Menu"] ELSE w

\* fn game_over_button_system: With<RestartButton>
game_over_button_system(w, interaction) ==
    IF interaction = "RestartButton" THEN [w EXCEPT !.next_state = "Playing"] ELSE w

\* Mutant: the pressed exit button only changes colour.
game_over_exit_button_system_idle(w, interaction) == w

\* fn game_over_exit_button_system: With<ExitButton>
game_over_exit_button_system(w, interaction) ==
    IF interaction = "ExitButton" THEN [w EXCEPT !.exit = TRUE] ELSE w

\* Mutant: the cleanup query leaves With<Pipe> out.
restart_game_keeps_pipes(w) ==
    [w EXCEPT !.despawn = w.despawn \cup {e.id : e \in {a \in w.entities : a.player}},
              !.score = 0,
              !.spawn = w.spawn \cup {PlayerBundle},
              !.spawned = 0]

\* Mutant: the Score resource is not reset.
restart_game_keeps_score(w) ==
    [w EXCEPT !.despawn = w.despawn \cup {e.id : e \in {a \in w.entities : a.player \/ a.pipe}},
              !.spawn = w.spawn \cup {PlayerBundle},
              !.spawned = 0]

\* Mutant: the cleanup query leaves With<Player> out.
restart_game_keeps_player(w) ==
    [w EXCEPT !.despawn = w.despawn \cup {e.id : e \in {a \in w.entities : a.pipe}},
              !.score = 0,
              !.spawn = w.spawn \cup {PlayerBundle},
              !.spawned = 0]

\* Mutant: the spawn timer starts afresh with every run.
restart_game_resets_timer(w) ==
    [w EXCEPT !.despawn = w.despawn \cup {e.id : e \in {a \in w.entities : a.player \/ a.pipe}},
              !.score = 0,
              !.spawn = w.spawn \cup {PlayerBundle},
              !.spawned = 0,
              !.timer = DefaultTimer]

\* fn restart_game, the OnEnter(AppState::Playing) schedule
restart_game(w) ==
    [w EXCEPT !.despawn = w.despawn \cup {e.id : e \in {a \in w.entities : a.player \/ a.pipe}},
              !.score = 0,
              !.spawn = w.spawn \cup {PlayerBundle},
              !.spawned = 0]

\* fn on_enter_game_over / spawn_game_over_ui, the OnEnter(AppState::GameOver) schedule
on_enter_game_over(w) == [w EXCEPT !.game_over_ui = w.game_over_ui + 1]

\* The queued Commands take effect: despawns, then spawns.
ApplyCommands(w) ==
    [w EXCEPT !.entities = {e \in w.entities : e.id \notin w.despawn} \cup w.spawn,
              !.menu = IF w.despawn_menu THEN 0 ELSE w.menu,
              !.game_over_ui = IF w.despawn_ui THEN 0 ELSE w.game_over_ui,
              !.despawn = {}, !.spawn = {},
              !.despawn_menu = FALSE, !.despawn_ui = FALSE]

\* Scoreable pipes with passed = true among the entities a flush removes
PassedAmongDespawned(w) ==
    Cardinality({e \in w.entities : e.id \in w.despawn /\ e.has_scoreable /\ e.passed})

----------------------------------------------------------------------------
(* The order of the Playing systems within one Update.  Two systems that  *)
(* touch disjoint data commute, so an order is decided by the order of    *)
(* move_system, gravity_system and player_input_system (they share        *)
(* Velocity) and by which of the three readers of Transform run before    *)
(* move_system.  lifetime_system, pipe_spawn_system and the two despawn   *)
(* systems only write LifeTime, a Local and Commands.                     *)

Kinematics ==
    {<<"move_system", "gravity_system", "player_input_system">>,
     <<"move_system", "player_input_system", "gravity_system">>,
     <<"gravity_system", "move_system", "player_input_system">>,
     <<"gravity_system", "player_input_system", "move_system">>,
     <<"player_input_system", "move_system", "gravity_system">>,
     <<"player_input_system", "gravity_system", "move_system">>}

Readers == <<"collision_system", "boundary_collision_system", "score_system">>

Deferred == <<"lifetime_system", "pipe_spawn_system", "despawn_menu", "despawn_game_over_ui">>

Keep(seq, set) == SelectSeq(seq, LAMBDA n : n \in set)

SystemOrders ==
    {Keep(Readers, early) \o k \o Keep(Readers, {"collision_system", "boundary_collision_system", "score_system"} \ early) \o Deferred :
        early \in SUBSET {"collision_system", "boundary_collision_system", "score_system"},
        k \in Kinematics}

\* One system of the Playing set (main.rs:648-660) on the frame's inputs
RunSystem(name, w, in) ==
    CASE name = "move_system" -> move_system(w, in.dt)
      [] name = "gravity_system" -> gravity_system(w, in.dt)
      [] name = "collision_system" -> collision_system(w)
      [] name = "player_input_system" -> player_input_system(w, in.just_pressed)
      [] name = "lifetime_system" -> lifetime_system(w, in.dt)
      [] name = "pipe_spawn_system" -> pipe_spawn_system(w, in.dt, in.center_y)
      [] name = "boundary_collision_system" -> boundary_collision_system(w)
      [] name = "score_system" -> score_system(w)
      [] name = "despawn_menu" -> despawn_menu(w)
      [] name = "despawn_game_over_ui" -> despawn_game_over_ui(w)

\* Mutant: the frame is cut short once GameOver is requested.
RECURSIVE RunSystems_until_hit(_, _, _)
RunSystems_until_hit(order, w, in) ==
    IF order = <<>> \/ w.next_state = "GameOver" THEN w
    ELSE RunSystems_until_hit(Tail(order), RunSystem(Head(order), w, in), in)

RECURSIVE RunSystems(_, _, _)
RunSystems(order, w, in) ==
    IF order = <<>> THEN w
    ELSE RunSystems(Tail(order), RunSystem(Head(order), w, in), in)

----------------------------------------------------------------------------
(* The program *)

\* Startup has run: setup spawned the player, setup_menu the menu.
Init ==
    /\ state = "Menu"
    /\ next_state = "Unchanged"
    /\ entities = {PlayerBundle}
    /\ score = 0
    /\ timer = DefaultTimer
    /\ menu = 1
    /\ game_over_ui = 0
    /\ pressed = "None"
    /\ space = FALSE
    /\ space_just_pressed = FALSE
    /\ exit = FALSE
    /\ delta = Secs(0)
    /\ spawned = 0
    /\ passed_despawned = 0
    /\ ran = "Startup"
    /\ steps = 0
    /\ falling = 0

\* Mutant: the run conditions are left out.
in_state_always(s) == TRUE

\* The run condition in_state(s) of main.rs:645, 661, 666, 670
in_state(s) == state = s

\* The buttons of the UI trees that exist: setup_menu's and spawn_game_over_ui's.
ExistingButtons ==
    (IF menu > 0 THEN {"StartButton", "ExitButton"} ELSE {})
        \cup (IF game_over_ui > 0 THEN {"RestartButton", "ExitButton"} ELSE {})

\* The Interaction the button queries see: a button is Pressed when the
\* pointer presses it and its entity exists.  The pointer presses only
\* buttons that exist.
Interaction(button) == IF button \in ExistingButtons THEN button ELSE "None"

\* What a schedule leaves behind.
Commit(w) ==
    /\ entities' = w.entities
    /\ score' = w.score
    /\ next_state' = w.next_state
    /\ timer' = w.timer
    /\ exit' = w.exit
    /\ spawned' = w.spawned
    /\ menu' = w.menu
    /\ game_over_ui' = w.game_over_ui

\* The inputs of a frame: the pointer, the keyboard and the clock.
Inputs(interaction, space_down, dt) ==
    /\ pressed' = interaction
    /\ space' = space_down
    /\ space_just_pressed' = (space_down /\ ~space)
    /\ delta' = dt

\* The count of frames the player has been left to gravity
Falling(space_down, dt) ==
    IF space_down /\ ~space THEN 0
    ELSE IF dt > 0 THEN falling + 1
    ELSE falling

\* StateTransition with a pending NextState: the state changes and the
\* OnEnter schedule of the new state runs, its commands applied at its end.
\* A transition to the current state runs no OnEnter schedule.
Transition ==
    /\ ~exit
    /\ next_state # "Unchanged"
    /\ LET w0 == [World EXCEPT !.next_state = "Unchanged"]
           w1 == IF next_state = state THEN w0
                 ELSE IF next_state = "Playing" THEN restart_game(w0)
                 ELSE IF next_state = "GameOver" THEN on_enter_game_over(w0)
                 ELSE w0
       IN  /\ state' = next_state
           /\ passed_despawned' = IF next_state = "Playing" /\ state # "Playing"
                                   THEN 0 ELSE passed_despawned
           /\ Commit(ApplyCommands(w1))
           /\ ran' = "StateTransition"
           /\ falling' = (IF next_state = "Playing" THEN 0 ELSE falling)
           /\ UNCHANGED <<pressed, space, space_just_pressed, delta, steps>>

\* A frame in AppState::Menu: button_system
MenuUpdate ==
    /\ ~exit
    /\ next_state = "Unchanged"
    /\ in_state("Menu")
    /\ \E request \in ExistingButtons \cup {"None"}, space_down \in BOOLEAN, dt \in Deltas :
           /\ Commit(ApplyCommands(button_system(World, Interaction(request),
                                                 Interaction(pressed))))
           /\ Inputs(request, space_down, dt)
           /\ ran' = "Update"
           /\ UNCHANGED <<state, passed_despawned, steps, falling>>

\* Mutant: the flap reads pressed(KeyCode::Space), not just_pressed.
PlayingUpdate_level_triggered ==
    /\ ~exit
    /\ next_state = "Unchanged"
    /\ in_state("Playing")
    /\ spawned < MaxPairs
    /\ \E request \in ExistingButtons \cup {"None"}, space_down \in BOOLEAN, dt \in Deltas :
         \E w \in {RunSystems(order, World,
                       [dt |-> dt, just_pressed |-> space_down, center_y |-> c]) :
                       order \in SystemOrders, c \in GapCentres} :
               /\ Commit(ApplyCommands(w))
               /\ Inputs(request, space_down, dt)
               /\ passed_despawned' = passed_despawned + PassedAmongDespawned(w)
               /\ ran' = "Update"
               /\ falling' = Falling(space_down, dt)
               /\ UNCHANGED <<state, steps>>

\* Mutant: game_over_button_system is also in the Playing set.
PlayingUpdate_with_restart ==
    /\ ~exit
    /\ next_state = "Unchanged"
    /\ in_state("Playing")
    /\ spawned < MaxPairs
    /\ \E request \in ExistingButtons \cup {"None"}, space_down \in BOOLEAN, dt \in Deltas :
         \E w \in {RunSystems(order, World,
                       [dt |-> dt, just_pressed |-> space_down /\ ~space, center_y |-> c]) :
                       order \in SystemOrders, c \in GapCentres} :
               /\ Commit(ApplyCommands(game_over_button_system(w, Interaction(request))))
               /\ Inputs(request, space_down, dt)
               /\ passed_despawned' = passed_despawned + PassedAmongDespawned(w)
               /\ ran' = "Update"
               /\ falling' = Falling(space_down, dt)
               /\ UNCHANGED <<state, steps>>

\* A frame in AppState::Playing: the systems of main.rs:648-660.  Orders
\* that leave the same world behind are one successor.
PlayingUpdate ==
    /\ ~exit
    /\ next_state = "Unchanged"
    /\ in_state("Playing")
    /\ spawned < MaxPairs
    /\ \E request \in ExistingButtons \cup {"None"}, space_down \in BOOLEAN, dt \in Deltas :
         \E w \in {RunSystems(order, World,
                       [dt |-> dt, just_pressed |-> space_down /\ ~space, center_y |-> c]) :
                       order \in SystemOrders, c \in GapCentres} :
               /\ Commit(ApplyCommands(w))
               /\ Inputs(request, space_down, dt)
               /\ passed_despawned' = passed_despawned + PassedAmongDespawned(w)
               /\ ran' = "Update"
               /\ falling' = Falling(space_down, dt)
               /\ UNCHANGED <<state, steps>>

\* A frame in AppState::GameOver: the two game-over button systems
GameOverUpdate ==
    /\ ~exit
    /\ next_state = "Unchanged"
    /\ in_state("GameOver")
    /\ \E request \in ExistingButtons \cup {"None"}, space_down \in BOOLEAN, dt \in Deltas :
           /\ Commit(ApplyCommands(game_over_exit_button_system(
                         game_over_button_system(World, Interaction(request)),
                         Interaction(request))))
           /\ Inputs(request, space_down, dt)
           /\ ran' = "Update"
           /\ UNCHANGED <<state, passed_despawned, steps, falling>>

Next == Transition \/ MenuUpdate \/ PlayingUpdate \/ GameOverUpdate

Spec == Init /\ [][Next]_vars

----------------------------------------------------------------------------
(* The systems one at a time.  A world of TestWorlds holds the player and *)
(* at most one pipe; SystemRun runs one system of the Playing set on it,  *)
(* on a cleared NextState, and applies its commands.                      *)

TestPlayer(py, vy) == [PlayerBundle EXCEPT !.y = py, !.dy = vy]

TestPipe(px, py, half_height, life, passed) ==
    [PipeBundle(1, py, TRUE) EXCEPT !.x = px, !.hh = half_height,
                                    !.lifetime = life, !.passed = passed]

\* Pipes around a player at the origin: overlapping, touching along an edge
\* or a corner, and apart; lifetimes of 0.1 s and 10 s.
TestPipes ==
    {TestPipe(Px(px), Px(0), Px(300), Twentieths(2), FALSE) : px \in {10, 35, 36, 37, 50}}
        \cup {TestPipe(Px(0), Px(py), Px(300), Secs(PIPE_LIFETIME), FALSE) :
                   py \in {315, 316, 317, -316}}
        \cup {TestPipe(Px(36), Px(316), Px(300), Secs(PIPE_LIFETIME), FALSE),
              TestPipe(Px(-10), Px(400), Px(295), Twentieths(2), FALSE),
              TestPipe(Px(-10), Px(400), Px(295), Secs(PIPE_LIFETIME), TRUE)}

\* Players around the two boundaries, at rest, rising and falling.
TestPlayers ==
    {TestPlayer(Px(py), PxPerSec(0)) : py \in {280, 284, 285, 305, -284, -285}}
        \cup {TestPlayer(Px(0), PxPerSec(vy)) : vy \in {-200, 0, FLAP_SPEED, 400}}

TestWorlds ==
    {{TestPlayer(Px(0), PxPerSec(0)), p} : p \in TestPipes}
        \cup {{q} : q \in TestPlayers}

SystemInit ==
    /\ state = "Playing"
    /\ next_state = "Unchanged"
    /\ entities \in TestWorlds
    /\ score = Cardinality({e \in entities : e.has_scoreable /\ e.passed})
    /\ timer = DefaultTimer
    /\ menu = 0
    /\ game_over_ui = 0
    /\ pressed = "None"
    /\ space = FALSE
    /\ space_just_pressed = FALSE
    /\ exit = FALSE
    /\ delta \in TestDeltas
    /\ spawned = Cardinality(Pipes(entities))
    /\ passed_despawned = 0
    /\ ran = "None"
    /\ steps = 0
    /\ falling = 0

SystemNames ==
    {"move_system", "gravity_system", "collision_system", "player_input_system",
     "lifetime_system", "pipe_spawn_system", "boundary_collision_system", "score_system"}

\* One system runs in a frame of its own: the delta stays the one drawn.
SystemRun ==
    /\ steps < MaxSteps
    /\ \E name \in SystemNames, space_down \in BOOLEAN, c \in TestGapCentres :
           LET w == RunSystem(name, [World EXCEPT !.next_state = "Unchanged"],
                              [dt |-> delta, just_pressed |-> space_down /\ ~space,
                               center_y |-> c])
           IN  /\ Commit(ApplyCommands(w))
               /\ Inputs("None", space_down, delta)
               /\ passed_despawned' = passed_despawned + PassedAmongDespawned(w)
               /\ ran' = name
               /\ steps' = steps + 1
               /\ UNCHANGED <<state, falling>>

SystemNext == SystemRun

SystemSpec == SystemInit /\ [][SystemNext]_vars

----------------------------------------------------------------------------
(* Claims *)

PlayerOf(es) == CHOOSE p \in Players(es) : TRUE

Abs(n) == IF n < 0 THEN -n ELSE n

\* C1: the phase starts as Menu (Idle) and changes only Menu -> Playing after
\* a frame that pressed Start, Playing -> GameOver after a Playing frame
\* raised the request, and GameOver -> Playing after a frame that pressed
\* Restart; Menu is never re-entered and Menu -> GameOver never happens.
C1_PhaseStep ==
    /\ state' # state =>
          \/ state = "Menu" /\ state' = "Playing" /\ pressed = "StartButton"
          \/ state = "Playing" /\ state' = "GameOver"
          \/ state = "GameOver" /\ state' = "Playing" /\ pressed = "RestartButton"
    /\ (next_state' = "GameOver" /\ next_state # "GameOver") =>
          state = "Playing" /\ ran' = "Update"
    /\ next_state' # "Menu"

C1_Phases == (state = "Menu") /\ [][C1_PhaseStep]_vars

\* C1 witness: the phase has gone Menu -> Playing -> GameOver -> Playing.
C1_Witness ==
    state = "Playing" /\ ran = "StateTransition" /\ game_over_ui > 0

\* C2: when the transition into Playing has completed, the score is 0, no
\* pipe exists and exactly one player exists, at (0,0) with velocity (0,0)
\* and collider half-extents (16,16).
C2_FreshRun ==
    (ran = "StateTransition" /\ state = "Playing") =>
        /\ score = 0
        /\ Pipes(entities) = {}
        /\ Cardinality(Players(entities)) = 1
        /\ \A p \in Players(entities) :
               /\ p.x = 0 /\ p.y = 0 /\ p.dx = 0 /\ p.dy = 0
               /\ p.hw = Px(16) /\ p.hh = Px(16)

\* C2 witness: a restart from GameOver after a run that had spawned pipes
\* (the spawn timer has been started and is part-way through a period).
C2_Witness ==
    /\ state = "Playing" /\ ran = "StateTransition" /\ game_over_ui > 0
    /\ timer.duration > 0 /\ timer.elapsed > 0

\* C3: a frame in Menu or GameOver changes no entity (position, velocity,
\* lifetime, Scoreable flag, the set of entities), nor the score, nor the
\* spawn timer.
C3_FrozenStep ==
    (ran' = "Update" /\ state \in {"Menu", "GameOver"}) =>
        UNCHANGED <<entities, score, timer>>

C3_Frozen == [][C3_FrozenStep]_vars

\* C3 witness: a GameOver frame of one second with pipes in the world.
C3_Witness ==
    /\ state = "GameOver" /\ ran = "Update" /\ delta = Secs(1)
    /\ Pipes(entities) # {} /\ score > 0

\* The two overlap tests on centres and half-extents.
OverlapStrict(a, b) ==
    Abs(a.x - b.x) < a.hw + b.hw /\ Abs(a.y - b.y) < a.hh + b.hh

OverlapClosed(a, b) ==
    Abs(a.x - b.x) <= a.hw + b.hw /\ Abs(a.y - b.y) <= a.hh + b.hh

At(e, px, py, half_width, half_height) ==
    e.x = Px(px) /\ e.y = Px(py) /\ e.hw = Px(half_width) /\ e.hh = Px(half_height)

\* C4, as the claim states it: the collision check requests GameOver exactly
\* when the player's box and some pipe's box overlap strictly on both axes,
\* |ax-bx| < ahw+bhw and |ay-by| < ahh+bhh; boxes that only touch do not
\* collide.
C4_StrictOverlap ==
    ran = "collision_system" =>
        (next_state = "GameOver" <=>
            \E a \in Players(entities), b \in Pipes(entities) : OverlapStrict(a, b))

\* C4, amended: the collision check requests GameOver exactly when the
\* player's box and some pipe's box intersect as closed boxes,
\* |ax-bx| <= ahw+bhw and |ay-by| <= ahh+bhh, so boxes that touch along an
\* edge or at a corner collide.  The player (0,0) with half-extents (16,16)
\* collides with the pipe (10,0) with half-extents (20,300) and not with the
\* pipe (50,0).
C4_ClosedOverlap ==
    ran = "collision_system" =>
        /\ next_state = "GameOver" <=>
               \E a \in Players(entities), b \in Pipes(entities) : OverlapClosed(a, b)
        /\ \A a \in Players(entities), b \in Pipes(entities) :
               /\ (At(a, 0, 0, 16, 16) /\ At(b, 10, 0, 20, 300)) => next_state = "GameOver"
               /\ (At(a, 0, 0, 16, 16) /\ At(b, 50, 0, 20, 300)) => next_state # "GameOver"

\* C4 witness: the check has run on boxes that touch along one edge only
\* and has requested GameOver.
C4_Witness ==
    /\ ran = "collision_system" /\ next_state = "GameOver"
    /\ \E a \in Players(entities), b \in Pipes(entities) :
           At(a, 0, 0, 16, 16) /\ At(b, 36, 0, 20, 300)

\* C5: the bounds check requests GameOver if and only if the player's
\* y + half-height is strictly greater than 300 or its y - half-height is
\* strictly less than -300; with half-height 16 it does at y = 305 and does
\* not at y = 280 or y = 284.
C5_Bounds ==
    ran = "boundary_collision_system" =>
        \A a \in Players(entities) :
            /\ next_state = "GameOver" <=>
                   (a.y + a.hh > Px(300) \/ a.y - a.hh < Px(-300))
            /\ (a.hh = Px(16) /\ a.y = Px(305)) => next_state = "GameOver"
            /\ (a.hh = Px(16) /\ a.y \in {Px(280), Px(284)}) => next_state # "GameOver"

\* C5 witness: the check has run on a player whose top edge is exactly on
\* the upper boundary and has requested nothing.
C5_Witness ==
    /\ ran = "boundary_collision_system" /\ next_state = "Unchanged"
    /\ \E a \in Players(entities) : a.y = Px(284) /\ a.hh = Px(16)

Scoreables(es) == {e \in es : e.has_scoreable}

\* C6: each Scoreable pipe counts at most once.  In a Playing frame that
\* starts with its flag false and the player's x strictly greater than its
\* x, the flag becomes true; a flag that is true stays true as long as the
\* pipe exists; a flag is only set on a pipe the player's x is strictly
\* greater than; and the score grows by exactly the number of pipes whose
\* flag the frame has set (those the frame also destroys included), so a
\* pipe already flagged adds nothing, whatever the positions.
C6_ScoreStep ==
    LET After(e) == {f \in entities' : f.id = e.id}
        flagged == {e \in Scoreables(entities) :
                       ~e.passed /\ \E f \in After(e) : f.passed}
        flagged_and_destroyed ==
            (passed_despawned' - passed_despawned)
                - Cardinality({e \in Scoreables(entities) : e.passed /\ After(e) = {}})
    IN  /\ \A e \in Scoreables(entities) : \A f \in After(e) : e.passed => f.passed
        /\ (ran' = "Update" /\ state = "Playing") =>
              /\ \A e \in Scoreables(entities) : \A f \in After(e) :
                     /\ (~e.passed /\ PlayerOf(entities).x > e.x) => f.passed
                     /\ (~e.passed /\ f.passed) => PlayerOf(entities').x > f.x
              /\ flagged_and_destroyed >= 0
              /\ score' = score + Cardinality(flagged) + flagged_and_destroyed

C6_CountedOnce == [][C6_ScoreStep]_vars

\* C6 witness: a pipe was flagged for one point and has since moved on for
\* two more seconds of Playing frames without adding to the score.
C6_Witness ==
    /\ state = "Playing" /\ ran = "Update" /\ score = 1
    /\ \E e \in Scoreables(entities) : e.passed /\ e.x <= Px(-300)

\* C7: the score is never negative and equals the number of pipe pairs of
\* the current run whose Scoreable flag has been set (those still in the
\* world plus those already destroyed); the score decreases only in the
\* transition into Playing, which sets it to 0.
C7_ScoreDrop ==
    score' < score =>
        ran' = "StateTransition" /\ state # "Playing" /\ state' = "Playing" /\ score' = 0

C7_Score ==
    /\ [](/\ score >= 0
          /\ score = Cardinality({e \in Scoreables(entities) : e.passed}) + passed_despawned)
    /\ [][C7_ScoreDrop]_vars

\* C7 witness: a run with two flagged pairs, one of them already destroyed.
C7_Witness ==
    state = "Playing" /\ score = 2 /\ passed_despawned = 1

\* C8: a frame of lifetime_system takes delta off every lifetime; the
\* entity is still there, with the smaller lifetime, if that is above 0, and
\* is destroyed in that frame if it is 0 or below; no other system changes
\* a lifetime or destroys an entity.  A pipe with lifetime 0.1 s and frames
\* of 0.05 s is there after the first frame and gone after the second.
C8_LifetimeStep ==
    \A e \in {a \in entities : a.has_lifetime} :
        IF ran' = "lifetime_system"
        THEN IF e.lifetime - delta > 0
             THEN [e EXCEPT !.lifetime = e.lifetime - delta] \in entities'
             ELSE e.id \notin Ids(entities')
        ELSE \E f \in entities' : f.id = e.id /\ f.lifetime = e.lifetime

C8_Lifetime == [][C8_LifetimeStep]_vars

\* C8 witness: the pipe with lifetime 0.1 s is gone after two frames of
\* 0.05 s (after one frame the step above has kept it, at 0.05 s).
C8_Witness ==
    /\ steps = 2 /\ ran = "lifetime_system" /\ delta = Twentieths(1)
    /\ spawned = 1 /\ Pipes(entities) = {}

\* C9: a frame of pipe_spawn_system creates one pair (two pipes) if its
\* timer completes at least one period of 2 s in that frame, however many
\* periods the frame spans, and nothing otherwise; it destroys nothing.
C9_SpawnStep ==
    ran' = "pipe_spawn_system" =>
        LET elapsed == (IF timer.duration = 0 THEN 0 ELSE timer.elapsed) + delta
            created == {f \in entities' : f.id \notin Ids(entities)}
        IN  /\ entities \subseteq entities'
            /\ created \subseteq Pipes(entities')
            /\ Cardinality(created) = IF elapsed >= Secs(2) THEN 2 ELSE 0
            /\ Cardinality({f \in created : f.has_scoreable}) <= 1
            /\ spawned' = spawned + (IF elapsed >= Secs(2) THEN 1 ELSE 0)

C9_OnePair == [][C9_SpawnStep]_vars

\* C9 witness: a first frame of 4 s, two periods, has created one pair.
C9_Witness ==
    /\ steps = 1 /\ ran = "pipe_spawn_system" /\ delta = Secs(4)
    /\ timer.times_finished_this_tick = 2
    /\ spawned = 1 /\ Cardinality(Pipes(entities)) = 2

\* A start request outside Menu, a restart request outside GameOver
WrongPhase(phase, request) ==
    \/ request = "StartButton" /\ phase \in {"Playing", "GameOver"}
    \/ request = "RestartButton" /\ phase \in {"Menu", "Playing"}

\* C10: a frame whose request is a start outside Menu or a restart outside
\* GameOver keeps the state and raises no transition to Playing, and in Menu
\* and GameOver it leaves entities, score and spawn timer as they were; a
\* transition to Playing becomes pending only in a Menu frame that presses
\* Start or a GameOver frame that presses Restart, and the state becomes
\* Playing only right after such a frame, so no earlier request is remembered.
C10_RequestStep ==
    /\ (ran' = "Update" /\ WrongPhase(state, pressed')) =>
          /\ state' = state
          /\ next_state' # "Playing"
          /\ state # "Playing" => UNCHANGED <<entities, score, timer, next_state>>
    /\ (next_state' = "Playing" /\ next_state # "Playing") =>
          /\ ran' = "Update"
          /\ \/ state = "Menu" /\ pressed' = "StartButton"
             \/ state = "GameOver" /\ pressed' = "RestartButton"
    /\ (state' = "Playing" /\ state # "Playing") =>
          /\ ~WrongPhase(state, pressed)
          /\ pressed \in {"StartButton", "RestartButton"}

C10_Ignored == [][C10_RequestStep]_vars

\* C10 witness: the Restart button was pressed in the first Playing frame
\* after a restart (the game-over screen is removed at the end of that
\* frame) and no transition is pending.
C10_Witness ==
    /\ state = "Playing" /\ ran = "Update" /\ pressed = "RestartButton"
    /\ next_state = "Unchanged" /\ game_over_ui = 0

\* The state a Playing frame has left behind
AfterPlayingFrame == state = "Playing" /\ ran = "Update"

\* C11, as the claim states it: after a Playing frame in which Space went
\* down the player's dy is exactly FLAP_SPEED, whichever of gravity_system
\* and player_input_system ran first.
C11_FlapExact ==
    (AfterPlayingFrame /\ space_just_pressed) =>
        \A p \in Players(entities) : p.dy = PxPerSec(FLAP_SPEED)

\* C11, amended: after a Playing frame in which Space went down the
\* player's dy is FLAP_SPEED if gravity_system ran before
\* player_input_system and FLAP_SPEED + GRAVITY * delta if it ran after it,
\* whatever the velocity was before (the flap overwrites it).
C11_FlapOverwrites ==
    (AfterPlayingFrame /\ space_just_pressed) =>
        \A p \in Players(entities) :
            p.dy \in {PxPerSec(FLAP_SPEED), PxPerSec(FLAP_SPEED) + Accelerate(GRAVITY, delta)}

\* C11 witness: a frame of 1 s in which Space went down and gravity was
\* applied after the flap: dy is 150 - 350.
C11_Witness ==
    /\ AfterPlayingFrame /\ space_just_pressed /\ delta = Secs(1)
    /\ \E p \in Players(entities) : p.dy = PxPerSec(FLAP_SPEED + GRAVITY)

\* C12: a Playing frame with delta > 0 in which Space did not go down
\* leaves the player's dy at dy + GRAVITY * delta, which is strictly less
\* than before, and its dx at 0.
C12_GravityStep ==
    (ran' = "Update" /\ state = "Playing" /\ ~space_just_pressed' /\ delta' > 0) =>
        \A p \in Players(entities) :
            \E q \in Players(entities') :
                /\ q.id = p.id
                /\ q.dy = p.dy + Accelerate(GRAVITY, delta')
                /\ q.dy < p.dy
                /\ p.dx = 0 /\ q.dx = 0

C12_Gravity == [][C12_GravityStep]_vars

\* C12 witness: two seconds of falling from rest, the second of them in a
\* frame without a flap.
C12_Witness ==
    /\ AfterPlayingFrame /\ ~space_just_pressed /\ delta = Secs(1)
    /\ \E p \in Players(entities) : p.dy = Accelerate(GRAVITY, Secs(2)) /\ p.dx = 0

\* C13, as the claim states it: a frame in which the Exit button is pressed
\* sends AppExit::Success, in Menu, Playing and GameOver alike.
C13_ExitAnywhere ==
    (ran = "Update" /\ pressed = "ExitButton") => exit

\* C13, amended: AppExit::Success is sent exactly by the Menu frames and
\* the GameOver frames in which the Exit button is pressed; a Playing frame
\* sends none, also when an Exit button is still there to be pressed.
C13_ExitInMenuAndGameOver ==
    ran = "Update" =>
        (exit <=> (pressed = "ExitButton" /\ state \in {"Menu", "GameOver"}))

\* C13 witness: the game-over screen's Exit button has ended the program.
C13_Witness ==
    exit /\ state = "GameOver" /\ pressed = "ExitButton" /\ ran = "Update"

OutOfBounds(a) == a.y + a.hh > Px(300) \/ a.y - a.hh < Px(-300)

Collides(a, pipes) == \E b \in pipes : OverlapClosed(a, b)

\* C14, as the claim states it: collision check, bounds check and scoring
\* run after the frame's integration, so what a Playing frame leaves behind
\* agrees with the positions it leaves behind: GameOver is requested exactly
\* if the player is out of bounds or overlaps a pipe there, and every
\* Scoreable pipe the player's x is greater than is flagged.
C14_FixedOrder ==
    AfterPlayingFrame =>
        /\ next_state = "GameOver" <=>
               \E a \in Players(entities) : OutOfBounds(a) \/ Collides(a, Pipes(entities))
        /\ \A e \in Scoreables(entities) : PlayerOf(entities).x > e.x => e.passed

\* C14, amended: the systems of a Playing frame run once each in an order
\* the program does not fix.  The collision check and the bounds check each
\* read the positions either as the frame found them or as its integration
\* leaves them: GameOver is requested if one of them fires on both, and
\* only if one of them fires on one of the two.  Integration moves the
\* player by delta times a velocity that is the one before the frame or one
\* that gravity, the flap or both have already written.
C14_AnyOrderStep ==
    (ran' = "Update" /\ state = "Playing") =>
        LET before == PlayerOf(entities)
            after == PlayerOf(entities')
            pipes_before == Pipes(entities)
            pipes_after == {[b EXCEPT !.x = b.x + Travel(b.dx, delta'),
                                      !.y = b.y + Travel(b.dy, delta')] : b \in pipes_before}
            fall == Accelerate(GRAVITY, delta')
            speeds == {before.dy, before.dy + fall}
                          \cup (IF space_just_pressed'
                                THEN {PxPerSec(FLAP_SPEED), PxPerSec(FLAP_SPEED) + fall}
                                ELSE {})
        IN  /\ after.y \in {before.y + Travel(v, delta') : v \in speeds}
            /\ after.x = before.x + Travel(before.dx, delta')
            /\ ((OutOfBounds(before) /\ OutOfBounds(after))
                    \/ (Collides(before, pipes_before) /\ Collides(after, pipes_after)))
                  => next_state' = "GameOver"
            /\ next_state' = "GameOver" =>
                  \/ OutOfBounds(before) \/ OutOfBounds(after)
                  \/ Collides(before, pipes_before) \/ Collides(after, pipes_after)

C14_AnyOrder == [][C14_AnyOrderStep]_vars

\* C14 witness: a Playing frame has left the player below the bottom
\* boundary without requesting GameOver: the bounds check ran before the
\* integration.
C14_Witness ==
    /\ AfterPlayingFrame /\ next_state = "Unchanged"
    /\ \E a \in Players(entities) : a.y - a.hh < Px(-300)

\* C15: a Playing frame that requests GameOver leaves the state Playing and
\* still does the whole frame's work: every pipe is moved by its velocity
\* times delta, every lifetime is aged by delta (the pipe destroyed if that
\* leaves 0 or less), the spawn timer is ticked, the player's dy is written
\* and every Scoreable pipe already behind the player is flagged.  The next
\* step is the transition to GameOver, which changes no entity, and from
\* then on entities, score and spawn timer stay as they are until the
\* state becomes Playing again.
C15_BoundaryStep ==
    /\ (ran' = "Update" /\ state = "Playing" /\ next_state' = "GameOver") =>
          /\ state' = "Playing"
          /\ \A b \in Pipes(entities) :
                 IF b.lifetime - delta' > 0
                 THEN \E c \in Pipes(entities') :
                          /\ c.id = b.id
                          /\ c.x = b.x + Travel(b.dx, delta')
                          /\ c.lifetime = b.lifetime - delta'
                          /\ (b.has_scoreable /\ PlayerOf(entities).x > b.x) => c.passed
                 ELSE b.id \notin Ids(entities')
          /\ timer' = TimerTick(IF timer.duration = 0
                                THEN [DefaultTimer EXCEPT !.duration = Secs(SPAWN_PERIOD)]
                                ELSE timer, delta')
          /\ PlayerOf(entities').dy \in
                 {PlayerOf(entities).dy + Accelerate(GRAVITY, delta'),
                  PxPerSec(FLAP_SPEED), PxPerSec(FLAP_SPEED) + Accelerate(GRAVITY, delta')}
    /\ next_state = "GameOver" =>
          /\ state' = "GameOver" /\ ran' = "StateTransition"
          /\ UNCHANGED <<entities, score, timer>>
    /\ state = "GameOver" =>
          \/ UNCHANGED <<entities, score, timer>>
          \/ state' = "Playing"

C15_PhaseBoundary == [][C15_BoundaryStep]_vars

\* C15 witness: the state is GameOver after a last Playing frame of 1 s
\* that moved the pipes (a pipe spawned at 500 is at a multiple of 100).
C15_Witness ==
    /\ state = "GameOver" /\ ran = "StateTransition" /\ delta = Secs(1)
    /\ \E b \in Pipes(entities) : b.x <= Px(0) /\ b.lifetime < Secs(PIPE_LIFETIME)

\* C16: in every state with AppState::Playing exactly one entity carries
\* Player, and in every state no entity carries both Player and Pipe.
C16_OnePlayer ==
    /\ state = "Playing" => Cardinality(Players(entities)) = 1
    /\ \A e \in entities : ~(e.player /\ e.pipe)

\* C16 witness: Playing has been entered again after an earlier run (its
\* spawn timer has been started) and the player is the one restart_game
\* spawned.
C16_Witness ==
    /\ state = "Playing" /\ ran = "StateTransition" /\ timer.duration > 0
    /\ Players(entities) = {PlayerBundle}

\* The two pipes of the k-th spawn_pipes call of a run (k = 0, 1, ...)
PairOf(es, k) == {e \in Pipes(es) : e.id \in {2 * k + 1, 2 * k + 2}}

\* C17: pipes exist as complete pairs.  In every state each spawn_pipes
\* call of the run has either both its pipes in the world or none, the two
\* at the same x with the same velocity and lifetime and exactly one of
\* them with a Scoreable; so the number of pipes is even and half of them
\* carry a Scoreable.  A pipe new in a state is at x = 500 with velocity
\* (-100, 0), lifetime 10 s and, if Scoreable, passed = false.
C17_PairStep ==
    /\ \A k \in 0 .. MaxPairs :
           \/ PairOf(entities, k) = {}
           \/ /\ Cardinality(PairOf(entities, k)) = 2
              /\ Cardinality({e \in PairOf(entities, k) : e.has_scoreable}) = 1
              /\ \A e, f \in PairOf(entities, k) :
                     e.x = f.x /\ e.dx = f.dx /\ e.dy = f.dy /\ e.lifetime = f.lifetime
    /\ Cardinality(Pipes(entities)) % 2 = 0
    /\ 2 * Cardinality(Scoreables(Pipes(entities))) = Cardinality(Pipes(entities))
    /\ \A e \in Pipes(entities') :
           e.id \notin Ids(entities) =>
               /\ e.x = Px(500) /\ e.dx = PxPerSec(-100) /\ e.dy = 0
               /\ e.lifetime = Secs(10) /\ e.has_lifetime
               /\ e.has_scoreable => ~e.passed

C17_Pairs == [][C17_PairStep]_vars

\* C17 witness: the first pair of a run has been destroyed by its lifetime
\* while later pairs are in the world.
C17_Witness ==
    /\ AfterPlayingFrame /\ PairOf(entities, 0) = {} /\ passed_despawned = 1
    /\ Cardinality(Pipes(entities)) >= 4

\* C18: the flap is edge-triggered.  A Playing frame writes FLAP_SPEED to
\* the player's dy only if Space is down in it and was not down in the
\* frame before; in a frame where Space is still held, as in one where it
\* is up, dy changes by GRAVITY * delta alone.
C18_EdgeStep ==
    (ran' = "Update" /\ state = "Playing") =>
        LET before == PlayerOf(entities).dy
            after == PlayerOf(entities').dy
            fall == Accelerate(GRAVITY, delta')
        IN  IF space' /\ ~space
            THEN after \in {PxPerSec(FLAP_SPEED), PxPerSec(FLAP_SPEED) + fall}
            ELSE after = before + fall

C18_EdgeTriggered == [][C18_EdgeStep]_vars

\* C18 witness: Space went down in one frame and is still held in the next,
\* a frame of 1 s, which has taken dy from 150 to 150 - 350.
C18_Witness ==
    /\ AfterPlayingFrame /\ space /\ ~space_just_pressed /\ delta = Secs(1)
    /\ PlayerOf(entities).dy = PxPerSec(FLAP_SPEED) + Accelerate(GRAVITY, Secs(1))

\* C19, as the claim states it: at most one game-over screen exists, and
\* the menu and the game-over screen are torn down by the transition into
\* Playing, so none of them is there once the state is Playing.
C19_TeardownAtTransition ==
    /\ game_over_ui <= 1
    /\ state = "Playing" => (menu = 0 /\ game_over_ui = 0)

\* C19, amended: the game-over screen is created by the transition into
\* GameOver and by nothing else, so at most one exists; the transition into
\* Playing removes neither the menu nor the game-over screen: despawn_menu
\* and despawn_game_over_ui run in every Playing frame, so both are gone
\* after the first Playing frame and stay gone in the later ones.
C19_SetupStep ==
    /\ game_over_ui <= 1
    /\ menu' <= menu
    /\ game_over_ui' > game_over_ui =>
          state # "GameOver" /\ state' = "GameOver" /\ game_over_ui' = game_over_ui + 1
    /\ (state # "GameOver" /\ state' = "GameOver") => game_over_ui' = 1
    /\ (state # "Playing" /\ state' = "Playing") => UNCHANGED <<menu, game_over_ui>>
    /\ (ran' = "Update" /\ state = "Playing") => (menu' = 0 /\ game_over_ui' = 0)
    /\ (ran' = "Update" /\ state # "Playing") => UNCHANGED <<menu, game_over_ui>>

C19_Setup == [][C19_SetupStep]_vars

\* C19 witness: a GameOver frame of 1 s has passed with the one game-over
\* screen the transition created, the menu long gone.
C19_Witness ==
    state = "GameOver" /\ ran = "Update" /\ delta = Secs(1) /\ game_over_ui = 1 /\ menu = 0

\* C20: a run ends unless the player keeps flapping.  With frames of 1 s,
\* once four Playing frames with delta > 0 have passed since Space last
\* went down (or since Playing was entered), GameOver has been requested;
\* a requested GameOver is the state after the next step.  In every
\* Playing frame with delta > 0 and without a flap that requests nothing,
\* the player's dy has dropped by 350 * delta.
C20_FallStep ==
    /\ (state = "Playing" /\ falling >= 4) => next_state = "GameOver"
    /\ next_state = "GameOver" => state' = "GameOver"
    /\ (ran' = "Update" /\ state = "Playing" /\ falling' > falling) =>
          /\ falling' = falling + 1
          /\ PlayerOf(entities').dy = PlayerOf(entities).dy + Accelerate(GRAVITY, delta')
          /\ PlayerOf(entities').dy < PlayerOf(entities).dy

C21_TimerStep ==
    /\ ran' = "StateTransition" => timer' = timer
    /\ (ran' = "Update" /\ state # "Playing") => timer' = timer
    /\ (ran' = "Update" /\ state = "Playing") =>
          LET carried == IF timer.duration = 0 THEN 0 ELSE timer.elapsed
          IN  /\ timer'.duration = Secs(2)
              /\ timer'.elapsed = (carried + delta') % Secs(2)
              /\ spawned' = spawned + (IF carried + delta' >= Secs(2) THEN 1 ELSE 0)

C21_TimerCarried == [][C21_TimerStep]_vars

\* C21 witness: one frame of 1 s into a run (the player has fallen from
\* rest for 1 s) the run's first pair is in the world, at x = 500: the
\* other second was accumulated before the restart.
C21_Witness ==
    /\ AfterPlayingFrame /\ delta = Secs(1) /\ falling = 1
    /\ PlayerOf(entities).dy = Accelerate(GRAVITY, Secs(1))
    /\ spawned = 1 /\ Cardinality(Pipes(entities)) = 2
    /\ \A b \in Pipes(entities) : b.x = Px(500)

=============================================================================
